---- MODULE Spec2Model ----
(***************************************************************************)
(* XCQA cross-chain request relay: the Telegram bot (src/bot/bot.py), the  *)
(* event listener (src/listener/listener.py), and the Bridge contract on   *)
(* chain C1 they both talk to.  The Bridge contract and the two chains are *)
(* not part of the two Python files: the contract is modelled from its     *)
(* documented interface, the chains by what their JSON-RPC calls return.   *)
(***************************************************************************)
EXTENDS Integers, Sequences, FiniteSets

\* ------------------------------------------------------------------ bounds
\* Requests the Bridge contract accepts before the model stops submitting.
MaxRequests == 2
\* Times the listener process is started (first start and restarts).
MaxStarts == 2
\* Log entries the C1 gateway hands to the listener's filter a second time.
MaxReplays == 1

\* --------------------------------------------------------------- constants
\* Width pad_bytes is asked for (listener.py line 59).
KeyWidth == 32

\* The bot processes (each runs bot.py against the same contract).
Bots == {"bot1", "bot2"}
\* /request arguments the users type: account, key, blockId.  The two
\* requests the model draws from differ in every argument.
Accounts == {"0xabc", "0xdef"}
Keys == {1, 300}
Blocks == {7, 8}
Args == {a \in Accounts \X Keys \X Blocks :
            a \in {<<"0xabc", 1, 7>>, <<"0xdef", 300, 8>>}}

\* ---------------------------------------------------------- pure functions
RECURSIVE IntToBytes(_)
\* HexBytes of a JSON-RPC quantity: the minimal big-endian bytes, 0 is one byte.
IntToBytes(n) ==
    IF n < 256 THEN <<n>> ELSE IntToBytes(n \div 256) \o <<n % 256>>

\* A mutation of pad_bytes: pads on the right (bytes.ljust).
PadBytesRight(fill, numBytes, unpadded) ==
    IF Len(unpadded) >= numBytes THEN unpadded
    ELSE unpadded \o [i \in 1..(numBytes - Len(unpadded)) |-> fill]

\* web3._utils.encoding.pad_bytes: unpadded.rjust(num_bytes, fill_with).
PadBytes(fill, numBytes, unpadded) ==
    IF Len(unpadded) >= numBytes THEN unpadded
    ELSE [i \in 1..(numBytes - Len(unpadded)) |-> fill] \o unpadded

HexDigits == <<"0","1","2","3","4","5","6","7","8","9","a","b","c","d","e","f">>

RECURSIVE BytesHex(_)
\* bytes.hex(): two lower-case digits per byte.
BytesHex(bs) ==
    IF bs = <<>> THEN <<>>
    ELSE <<HexDigits[(Head(bs) \div 16) + 1], HexDigits[(Head(bs) % 16) + 1]>>
         \o BytesHex(Tail(bs))

\* '0x' + reply.hex()   (bot.py lines 113 and 124).
FormatReply(bs) == <<"0", "x">> \o BytesHex(bs)

\* ------------------------------------------------------------ chain C2
\* The storage value of (account, key) at blockId on C2.
StorageAt(account, key, blockId) == IntToBytes(key * blockId)

\* infura.eth.get_block(blockId): the header, of which stateRoot is read.
GetBlock(blockId) == [stateRoot |-> <<"root", blockId>>]

\* infura.eth.get_proof(account, [key], blockId).
GetProof(account, key, blockId) ==
    [accountProof |-> <<"accountNodes", account, blockId>>,
     storageHash  |-> <<"storageRoot", account, blockId>>,
     storageProof |-> << [key   |-> IntToBytes(key),
                          value |-> StorageAt(account, key, blockId),
                          proof |-> <<"storageNodes", account, key, blockId>>] >>]

\* A malformed response: no storage-proof entry.
GetProofEmpty(account, key, blockId) ==
    [GetProof(account, key, blockId) EXCEPT !.storageProof = <<>>]

\* ------------------------------------------------------------------ state
VARIABLES
    requests,    \* Bridge contract: the requests, requestId i is requests[i+1]
    servedLog,   \* Bridge contract: the RequestServed events, in emission order
    relay,       \* the listener process: position, filter cursor, locals, and
                 \* inflight: verify transactions handed over of which no
                 \* receipt has been seen, whichever run handed them over;
                 \* lost: those of them whose run ended waiting for the receipt
    delivered,   \* requestIds get_new_entries returned to the listener, in order
    handled,     \* requestIds handle_event was invoked for, in order
    verifyTxs,   \* verify transactions the listener handed to the C1 gateway
    missed,      \* requestIds logged while the listener had no filter
    bot,         \* each bot process: position in its handler, locals, last message
    own          \* the requestId the contract assigned to each bot's last request

vars == <<requests, servedLog, relay, delivered, handled, verifyTxs, missed, bot,
          own>>

Total == Len(requests)
RequestIds == 0 .. (Total - 1)
Req(id) == requests[id + 1]

\* A message the bot sends with reply_text: what it says (kind), the request
\* id or the count it names, the Served flag and the '0x...' text it shows.
Msg(kind, id, served, text) ==
    [kind |-> kind, id |-> id, served |-> served, text |-> text]

NoMsg == Msg("none", -1, FALSE, <<>>)

\* A bot with no handler running and nothing of a handler left.  seq tells
\* one status answer from the one sent just before it: it flips with each.
BotIdle == [pc |-> "idle", args |-> <<>>, rid |-> -1, fcur |-> -1,
            err |-> "none", msg |-> NoMsg, seq |-> 0]

Init ==
    /\ requests = <<>>
    /\ servedLog = <<>>
    /\ relay = [pc |-> "stopped", cursor |-> 0, queue |-> <<>>, cur |-> -1,
                inflight |-> 0, lost |-> 0, starts |-> 0,
                replays |-> 0]
    /\ delivered = <<>>
    /\ handled = <<>>
    /\ verifyTxs = <<>>
    /\ missed = {}
    /\ bot = [b \in Bots |-> BotIdle]
    /\ own = [b \in Bots |-> -1]

\* ------------------------------------------------- Bridge contract (C1)
\* request(account, key, blockId, 0, 0): a new Pending request, id = old total.
ContractRequest(account, key, blockId) ==
    Append(requests, [account |-> account, key |-> key, blockId |-> blockId,
                      served |-> FALSE, reply |-> <<>>])

\* A storage key as the contract takes it: the 32 bytes of the slot number,
\* big-endian.
Bytes32(k) ==
    LET kb == IntToBytes(k)
        z  == KeyWidth - Len(kb)
    IN  [i \in 1..KeyWidth |-> IF i <= z THEN 0 ELSE kb[i - z]]

\* The contract's proof check: the payload proves the value of the request's
\* slot under the state root of the request's block.
ProofValid(req, sp) ==
    /\ sp.stateRoot = GetBlock(req.blockId).stateRoot
    /\ sp.account = req.account
    /\ sp.accountProof = GetProof(req.account, req.key, req.blockId).accountProof
    /\ sp.storageHash = GetProof(req.account, req.key, req.blockId).storageHash
    /\ sp.storageKey = Bytes32(req.key)
    /\ sp.storageValue = StorageAt(req.account, req.key, req.blockId)
    /\ sp.storageProof =
         GetProof(req.account, req.key, req.blockId).storageProof[1].proof

\* A mutation of VerifyAccepts: an already-served request is verified again.
VerifyAcceptsServed(id, sp) ==
    /\ id \in RequestIds
    /\ ProofValid(Req(id), sp)

\* verify(requestId, stateProof) goes through: the request exists, is Pending
\* and the proof checks.
VerifyAccepts(id, sp) ==
    /\ id \in RequestIds
    /\ ~Req(id).served
    /\ ProofValid(Req(id), sp)

\* The contract state after an accepted verify: Served, reply recorded.
ContractVerify(id, sp) ==
    [requests EXCEPT ![id + 1].served = TRUE, ![id + 1].reply = sp.storageValue]

\* The RequestServed(requestId, reply) event of an accepted verify.
ServedEvent(id, sp) ==
    [requestId |-> id, reply |-> sp.storageValue]

GetTotal == Total
GetPending == Cardinality({i \in RequestIds : ~Req(i).served})
GetServed == Cardinality({i \in RequestIds : Req(i).served})

\* ------------------------------------------------- the listener process
\* One action per interaction with chain C1.  A transaction takes effect on
\* C1 at the transact() step (the process does nothing between transact() and
\* the receipt, so a later mining point is the same behaviour with the step
\* taken later); the reads of C2, whose history does not change, and the
\* local computation are part of the C1 step that follows them.
RelayUp == relay.pc \notin {"stopped", "crashed"}

\* The process is gone: an uncaught exception left handle_event, log_loop and
\* main (whose finally clause closes the loop).  Its filter and locals go
\* with it; a verify it was waiting for stays without receipt: nobody waits
\* for it any more.
RelayExit(how) ==
    [relay EXCEPT !.pc = how, !.queue = <<>>, !.cur = -1, !.lost = relay.inflight]

\* A mutation of FromLatest: the filter starts at the first block and returns
\* everything logged so far.
FromEarliest == Len(<<>>)

\* fromBlock='latest': the filter returns what is logged after its creation.
FromLatest == Total

\* main(): create the RequestLogged filter, then run log_loop.
RelayStart(ok) ==
    /\ ~RelayUp
    /\ relay.starts < MaxStarts
    /\ relay' = IF ok
                THEN [relay EXCEPT !.pc = "poll", !.cursor = FromLatest,
                                   !.starts = @ + 1]
                ELSE [RelayExit("crashed") EXCEPT !.starts = @ + 1]
    /\ UNCHANGED <<delivered, requests, servedLog, handled, verifyTxs, missed, bot,
                 own>>

\* The RequestLogged entries with ids lo .. hi-1, as the filter returns them.
LoggedEntries(lo, hi) ==
    [i \in 1..(hi - lo) |-> lo + i - 1]

\* A mutation of Iterate: the loop takes the entries from the end of the list.
IterateLast(r, entries) ==
    IF entries = <<>>
    THEN [r EXCEPT !.pc = "poll", !.queue = <<>>, !.cur = -1]
    ELSE [r EXCEPT !.pc = "handle", !.cur = entries[Len(entries)],
                   !.queue = SubSeq(entries, 1, Len(entries) - 1)]

\* The for loop of log_loop over the entries still to go: handle_event is
\* called with the next one; with none left, sleep and poll again.
Iterate(r, entries) ==
    IF entries = <<>>
    THEN [r EXCEPT !.pc = "poll", !.queue = <<>>, !.cur = -1]
    ELSE [r EXCEPT !.pc = "handle", !.cur = Head(entries), !.queue = Tail(entries)]

\* The calls of handle_event so far, after the loop moved r to r2.
Invoked(r2) ==
    IF r2.pc = "handle" THEN Append(handled, r2.cur) ELSE handled

\* event_filter.get_new_entries() at the head of the for loop: the entries
\* logged since the last poll; the gateway may hand over again an entry this
\* loop has been given before (replay >= 0).
RelayPoll(ok, replay) ==
    /\ relay.pc = "poll"
    /\ replay \in {-1} \cup {handled[i] : i \in 1..Len(handled)}
    /\ replay >= 0 => ok /\ relay.replays < MaxReplays
    /\ LET entries == (IF replay >= 0 THEN <<replay>> ELSE <<>>)
                      \o LoggedEntries(relay.cursor, Total)
           r2 == Iterate([relay EXCEPT !.cursor = Total,
                            !.replays = IF replay >= 0 THEN @ + 1 ELSE @], entries)
       IN  IF ok
           THEN /\ relay' = r2
                /\ delivered' = delivered \o entries
                /\ handled' = Invoked(r2)
           ELSE /\ relay' = RelayExit("crashed")
                /\ UNCHANGED <<delivered, handled>>
    /\ UNCHANGED <<requests, servedLog, verifyTxs, missed, bot, own>>

\* A mutation of StateProof: the state root is the one of the latest block of
\* C2, not of the block the proof was fetched at.
StateProofLatestRoot(block, account, proof) ==
    [stateRoot    |-> GetBlock(CHOOSE b \in Blocks : \A c \in Blocks : c <= b).stateRoot,
     account      |-> account,
     accountProof |-> proof.accountProof,
     storageHash  |-> proof.storageHash,
     storageKey   |-> PadBytes(0, KeyWidth, proof.storageProof[1].key),
     storageValue |-> proof.storageProof[1].value,
     storageProof |-> proof.storageProof[1].proof]

\* handle_event: the stateProof list (as a record, fields in list order).
StateProof(block, account, proof) ==
    [stateRoot    |-> block.stateRoot,
     account      |-> account,
     accountProof |-> proof.accountProof,
     storageHash  |-> proof.storageHash,
     storageKey   |-> PadBytes(0, KeyWidth, proof.storageProof[1].key),
     storageValue |-> proof.storageProof[1].value,
     storageProof |-> proof.storageProof[1].proof]

\* A mutation of RelayHandle: the transaction is handed over and the loop goes
\* on to the next entry without waiting for the receipt.
RelayHandleNoWait(out) ==
    /\ relay.pc = "handle"
    /\ out \in {"send", "noop", "block", "proof", "empty", "tx"}
    /\ LET id == relay.cur
           r  == Req(id)
           sp == StateProof(GetBlock(r.blockId), r.account,
                            GetProof(r.account, r.key, r.blockId))
           r2 == Iterate([relay EXCEPT !.inflight = @ + 1], relay.queue)
       IN  IF out \in {"block", "proof", "empty", "tx"}
           THEN /\ relay' = RelayExit("crashed")
                /\ UNCHANGED <<requests, servedLog, verifyTxs, handled>>
           ELSE IF VerifyAccepts(id, sp)
           THEN /\ out = "send"
                /\ requests' = ContractVerify(id, sp)
                /\ servedLog' = Append(servedLog, ServedEvent(id, sp))
                /\ verifyTxs' = Append(verifyTxs,
                       [requestId |-> id, stateProof |-> sp, result |-> "served"])
                /\ relay' = r2
                /\ handled' = Invoked(r2)
           ELSE /\ out = "noop" => r.served
                /\ verifyTxs' = Append(verifyTxs,
                       [requestId |-> id, stateProof |-> sp,
                        result |-> IF out = "noop" THEN "noop" ELSE "reverted"])
                /\ relay' = IF out = "noop" THEN r2 ELSE RelayExit("crashed")
                /\ handled' = IF out = "noop" THEN Invoked(r2) ELSE handled
                /\ UNCHANGED <<requests, servedLog>>
    /\ UNCHANGED <<delivered, missed, bot, own>>

\* handle_event up to the verify transaction: get_block and get_proof on C2,
\* the stateProof, contract.functions.verify(requestId, stateProof).transact().
\* out names what the gateways do: "block" and "proof" raise in the fetches,
\* "empty" returns no storage-proof entry (IndexError at storageProof[0]),
\* "tx" raises in transact() before the transaction is taken; "send" hands the
\* transaction over, and a revert raises from transact(); "noop" is a verify
\* of an already Served request that the contract lets through unchanged.
RelayHandle(out) ==
    /\ relay.pc = "handle"
    /\ out \in {"send", "noop", "block", "proof", "empty", "tx"}
    /\ LET id == relay.cur
           r  == Req(id)
           sp == StateProof(GetBlock(r.blockId), r.account,
                            GetProof(r.account, r.key, r.blockId))
       IN  IF out \in {"block", "proof", "empty", "tx"}
           THEN /\ relay' = RelayExit("crashed")
                /\ UNCHANGED <<requests, servedLog, verifyTxs>>
           ELSE IF VerifyAccepts(id, sp)
           THEN /\ out = "send"
                /\ requests' = ContractVerify(id, sp)
                /\ servedLog' = Append(servedLog, ServedEvent(id, sp))
                /\ verifyTxs' = Append(verifyTxs,
                       [requestId |-> id, stateProof |-> sp, result |-> "served"])
                /\ relay' = [relay EXCEPT !.pc = "receipt", !.inflight = @ + 1]
           ELSE /\ out = "noop" => r.served
                /\ verifyTxs' = Append(verifyTxs,
                       [requestId |-> id, stateProof |-> sp,
                        result |-> IF out = "noop" THEN "noop" ELSE "reverted"])
                /\ relay' = IF out = "noop"
                            THEN [relay EXCEPT !.pc = "receipt", !.inflight = @ + 1]
                            ELSE RelayExit("crashed")
                /\ UNCHANGED <<requests, servedLog>>
    /\ UNCHANGED <<delivered, handled, missed, bot, own>>

\* handle_event: web3.eth.wait_for_transaction_receipt(txn_hash), the print,
\* and the for loop's next turn.
RelayReceipt(ok) ==
    /\ relay.pc = "receipt"
    /\ LET r2 == Iterate([relay EXCEPT !.inflight = @ - 1], relay.queue)
       IN  IF ok
           THEN /\ relay' = r2
                /\ handled' = Invoked(r2)
           ELSE /\ relay' = RelayExit("crashed")
                /\ UNCHANGED handled
    /\ UNCHANGED <<delivered, requests, servedLog, verifyTxs, missed, bot, own>>

\* ------------------------------------------------------ the bot process
\* No handler is running: the bot takes the next command.  The Application
\* is built with its defaults and handles one update after the other, and a
\* running handler does not give the event loop back while it waits: listen()
\* is a plain function that sleeps with time.sleep, and the web3 calls block.
Ready(b) == bot[b].pc \in {"idle", "done", "aborted"}

\* The handler raised at step `at`: the library logs the error, nothing is
\* sent, and the handler's locals are gone; err keeps the step that raised.
Abort(b, at) == [bot EXCEPT ![b] = [BotIdle EXCEPT !.pc = "aborted", !.err = at]]

\* request(): contract.functions.request(account, key, blockId, 0, 0).transact()
BotTransact(b, a, ok) ==
    /\ Ready(b)
    /\ a \in Args
    /\ Total < MaxRequests
    /\ IF ok
       THEN /\ requests' = ContractRequest(a[1], a[2], a[3])
            /\ missed' = IF RelayUp THEN missed ELSE missed \cup {Total}
            /\ own' = [own EXCEPT ![b] = Total]
            /\ bot' = [bot EXCEPT ![b] = [BotIdle EXCEPT !.pc = "receipt", !.args = a]]
       ELSE /\ bot' = Abort(b, "transact")
            /\ own' = [own EXCEPT ![b] = -1]
            /\ UNCHANGED <<requests, missed>>
    /\ UNCHANGED <<delivered, servedLog, relay, handled, verifyTxs>>

\* A mutation of BotReceipt: a failed wait is swallowed and the handler goes on.
BotReceiptSwallow(b, ok) ==
    /\ bot[b].pc = "receipt"
    /\ bot' = [bot EXCEPT ![b].pc = "total",
                          ![b].err = IF ok THEN "none" ELSE "receipt"]
    /\ UNCHANGED <<delivered, requests, servedLog, relay, handled, verifyTxs,
                 missed, own>>

\* request(): web3.eth.wait_for_transaction_receipt(txn_hash)
BotReceipt(b, ok) ==
    /\ bot[b].pc = "receipt"
    /\ bot' = IF ok THEN [bot EXCEPT ![b].pc = "total"] ELSE Abort(b, "receipt")
    /\ own' = IF ok THEN own ELSE [own EXCEPT ![b] = -1]
    /\ UNCHANGED <<delivered, requests, servedLog, relay, handled, verifyTxs, missed>>

\* A mutation of BotGetTotal: the id is taken to be the counter itself.
BotGetTotalNoDecrement(b, ok) ==
    /\ bot[b].pc = "total"
    /\ bot' = IF ok
              THEN [bot EXCEPT ![b].pc = "filter", ![b].rid = GetTotal,
                               ![b].msg = Msg("created", GetTotal, FALSE, <<>>)]
              ELSE Abort(b, "total")
    /\ own' = IF ok THEN own ELSE [own EXCEPT ![b] = -1]
    /\ UNCHANGED <<delivered, requests, servedLog, relay, handled, verifyTxs, missed>>

\* A mutation of BotGetTotal: the id is the one the contract assigned to the
\* handler's own transaction, whatever the counter says.
BotGetTotalOwnId(b, ok) ==
    /\ bot[b].pc = "total"
    /\ bot' = IF ok
              THEN [bot EXCEPT ![b].pc = "filter", ![b].rid = own[b],
                               ![b].msg = Msg("created", own[b], FALSE, <<>>)]
              ELSE Abort(b, "total")
    /\ own' = IF ok THEN own ELSE [own EXCEPT ![b] = -1]
    /\ UNCHANGED <<delivered, requests, servedLog, relay, handled, verifyTxs, missed>>

\* request(): requestId = int(contract.functions.getTotal().call()) - 1, then
\* reply_text('Request created (id: ...)')
BotGetTotal(b, ok) ==
    /\ bot[b].pc = "total"
    /\ bot' = IF ok
              THEN [bot EXCEPT ![b].pc = "filter", ![b].rid = GetTotal - 1,
                               ![b].msg = Msg("created", GetTotal - 1, FALSE, <<>>)]
              ELSE Abort(b, "total")
    /\ own' = IF ok THEN own ELSE [own EXCEPT ![b] = -1]
    /\ UNCHANGED <<delivered, requests, servedLog, relay, handled, verifyTxs, missed>>

\* request(): contract.events.RequestServed.createFilter(fromBlock='latest',
\* argument_filters={'requestId': requestId})
BotCreateFilter(b, ok) ==
    /\ bot[b].pc = "filter"
    /\ bot' = IF ok
              THEN [bot EXCEPT ![b].pc = "listen", ![b].fcur = Len(servedLog)]
              ELSE Abort(b, "filter")
    /\ own' = IF ok THEN own ELSE [own EXCEPT ![b] = -1]
    /\ UNCHANGED <<delivered, requests, servedLog, relay, handled, verifyTxs, missed>>

\* A mutation of FilterEntries: the filter has no argument filter.
FilterEntriesAny(cursor, requestId) ==
    SubSeq(servedLog, cursor + 1, Len(servedLog))

\* A mutation of FilterEntries: the filter also returns the matching events
\* emitted before it was created.
FilterEntriesFromStart(cursor, requestId) ==
    SelectSeq(servedLog, LAMBDA e : e.requestId = requestId)

\* eventFilter.get_new_entries(): the RequestServed events after the cursor
\* whose requestId is the filter's.
FilterEntries(cursor, requestId) ==
    SelectSeq(SubSeq(servedLog, cursor + 1, Len(servedLog)),
              LAMBDA e : e.requestId = requestId)

\* A mutation of BotListen: the wait gives up after a poll without entries.
BotListenGiveUp(b, ok) ==
    /\ bot[b].pc = "listen"
    /\ bot' = IF ok
              THEN LET entries == FilterEntries(bot[b].fcur, bot[b].rid) IN
                   IF Len(entries) > 0
                   THEN [bot EXCEPT ![b].pc = "done",
                           ![b].msg = Msg("served", entries[1].requestId, TRUE,
                                          FormatReply(entries[1].reply))]
                   ELSE [bot EXCEPT ![b].pc = "done", ![b].fcur = Len(servedLog)]
              ELSE Abort(b, "listen")
    /\ own' = IF ok THEN own ELSE [own EXCEPT ![b] = -1]
    /\ UNCHANGED <<delivered, requests, servedLog, relay, handled, verifyTxs, missed>>

\* listen(): one turn of the while loop.  With an entry, entries[0] is
\* returned and request() sends 'Request served' with the event's requestId
\* and '0x' + reply.hex(); with none, the loop sleeps and polls again.  The
\* filter is not polled after the returning turn: fcur then stays where that
\* turn read from.
BotListen(b, ok) ==
    /\ bot[b].pc = "listen"
    /\ bot' = IF ok
              THEN LET entries == FilterEntries(bot[b].fcur, bot[b].rid) IN
                   IF Len(entries) > 0
                   THEN [bot EXCEPT ![b].pc = "done",
                           ![b].msg = Msg("served", entries[1].requestId, TRUE,
                                          FormatReply(entries[1].reply))]
                   ELSE [bot EXCEPT ![b].fcur = Len(servedLog)]
              ELSE Abort(b, "listen")
    /\ own' = IF ok THEN own ELSE [own EXCEPT ![b] = -1]
    /\ UNCHANGED <<delivered, requests, servedLog, relay, handled, verifyTxs, missed>>

\* A status handler is over: its message is sent, nothing else is kept.
Answer(b, m) ==
    [bot EXCEPT ![b] = [BotIdle EXCEPT !.msg = m, !.seq = 1 - bot[b].seq]]

\* The message of a handler that names nothing of the contract: the greeting
\* of hello(), the command list of help().
OtherMsg == Msg("other", -1, FALSE, <<>>)

\* hello(): reply_text('Hello User!').  No call to the contract; when
\* reply_text raises, the handler is left and nothing is sent.
BotHello(b, ok) ==
    /\ Ready(b)
    /\ bot' = IF ok THEN [bot EXCEPT ![b] = [BotIdle EXCEPT !.msg = OtherMsg]]
                    ELSE Abort(b, "query")
    /\ own' = [own EXCEPT ![b] = -1]
    /\ UNCHANGED <<delivered, requests, servedLog, relay, handled, verifyTxs, missed>>

\* help(): reply_text of the list of commands.  No call to the contract.
BotHelp(b, ok) ==
    /\ Ready(b)
    /\ bot' = IF ok THEN [bot EXCEPT ![b] = [BotIdle EXCEPT !.msg = OtherMsg]]
                    ELSE Abort(b, "query")
    /\ own' = [own EXCEPT ![b] = -1]
    /\ UNCHANGED <<delivered, requests, servedLog, relay, handled, verifyTxs, missed>>

\* counter(): contract.functions.getTotal().call(), then reply_text.
BotCounter(b, ok) ==
    /\ Ready(b)
    /\ bot' = IF ok THEN Answer(b, Msg("total", GetTotal, FALSE, <<>>))
                    ELSE Abort(b, "query")
    /\ own' = [own EXCEPT ![b] = -1]
    /\ UNCHANGED <<delivered, requests, servedLog, relay, handled, verifyTxs, missed>>

\* A mutation of BotPending: the bot answers with the count it showed last,
\* when it has one.
BotPendingCached(b, ok) ==
    /\ Ready(b)
    /\ bot' = IF ok
              THEN Answer(b, Msg("pending",
                                 IF bot[b].msg.kind = "pending" THEN bot[b].msg.id
                                                                ELSE GetPending,
                                 FALSE, <<>>))
              ELSE Abort(b, "query")
    /\ own' = [own EXCEPT ![b] = -1]
    /\ UNCHANGED <<delivered, requests, servedLog, relay, handled, verifyTxs, missed>>

\* pending(): contract.functions.getPending().call(), then reply_text.
BotPending(b, ok) ==
    /\ Ready(b)
    /\ bot' = IF ok THEN Answer(b, Msg("pending", GetPending, FALSE, <<>>))
                    ELSE Abort(b, "query")
    /\ own' = [own EXCEPT ![b] = -1]
    /\ UNCHANGED <<delivered, requests, servedLog, relay, handled, verifyTxs, missed>>

\* served(): contract.functions.getServed().call(), then reply_text.
BotServed(b, ok) ==
    /\ Ready(b)
    /\ bot' = IF ok THEN Answer(b, Msg("servedCount", GetServed, FALSE, <<>>))
                    ELSE Abort(b, "query")
    /\ own' = [own EXCEPT ![b] = -1]
    /\ UNCHANGED <<delivered, requests, servedLog, relay, handled, verifyTxs, missed>>

\* What can happen in check(): "ok", every call goes through; "args", the
\* argument is missing or no number and int(context.args[0]) raises before
\* the try; "call", getRequest(...).call() raises a gateway error; "reply",
\* the reply_text inside the try raises; "silent", the reply_text inside the
\* except clause raises as well.
CheckOutcomes == {"ok", "args", "call", "reply", "silent"}

\* check(): contract.functions.getRequest(requestId).call() and the status
\* message inside try; the bare except answers 'Sorry, I couldn't find any
\* request' for whatever was raised there: the contract's revert on an unknown
\* id, a gateway error, or the failed sending of the status message.  What is
\* raised before the try or inside the except clause leaves the handler, and
\* nothing is sent.
BotCheck(b, id, out) ==
    /\ Ready(b)
    /\ out \in CheckOutcomes
    /\ bot' = IF out \in {"args", "silent"}
              THEN Abort(b, "query")
              ELSE IF out = "ok" /\ id \in RequestIds
              THEN Answer(b, Msg("status", id, Req(id).served,
                                 FormatReply(Req(id).reply)))
              ELSE Answer(b, Msg("notfound", id, FALSE, <<>>))
    /\ own' = [own EXCEPT ![b] = -1]
    /\ UNCHANGED <<delivered, requests, servedLog, relay, handled, verifyTxs, missed>>

\* ------------------------------------------------------------ behaviours
RelayStep ==
    \/ \E ok \in BOOLEAN : RelayStart(ok)
    \/ \E ok \in BOOLEAN, replay \in -1 .. (MaxRequests - 1) : RelayPoll(ok, replay)
    \/ \E out \in {"send", "noop", "block", "proof", "empty", "tx"} : RelayHandle(out)
    \/ \E ok \in BOOLEAN : RelayReceipt(ok)

BotStep(b) ==
    \/ \E a \in Args, ok \in BOOLEAN : BotTransact(b, a, ok)
    \/ \E ok \in BOOLEAN : BotReceipt(b, ok)
    \/ \E ok \in BOOLEAN : BotGetTotal(b, ok)
    \/ \E ok \in BOOLEAN : BotCreateFilter(b, ok)
    \/ \E ok \in BOOLEAN : BotListen(b, ok)

Next ==
    \/ RelayStep
    \/ \E b \in Bots : BotStep(b)

Spec == Init /\ [][Next]_vars

\* The commands besides /request (the status commands, /hello and /help),
\* with the request path of one bot and the listener moving the contract
\* underneath them.
QueryBot == "bot1"

QueryStep(b) ==
    \/ \E ok \in BOOLEAN : BotHello(b, ok)
    \/ \E ok \in BOOLEAN : BotHelp(b, ok)
    \/ \E ok \in BOOLEAN : BotCounter(b, ok)
    \/ \E ok \in BOOLEAN : BotPending(b, ok)
    \/ \E ok \in BOOLEAN : BotServed(b, ok)
    \/ \E id \in 0 .. MaxRequests, out \in CheckOutcomes : BotCheck(b, id, out)

QueryNext ==
    \/ RelayStep
    \/ BotStep(QueryBot)
    \/ QueryStep(QueryBot)

QuerySpec == Init /\ [][QueryNext]_vars

\* ---------------------------------------------------------------- claims
\* How often handle_event was invoked for requestId id.
TimesHandled(id) == Cardinality({i \in 1..Len(handled) : handled[i] = id})

\* The verify transactions the listener submitted for requestId id.
VerifiesOf(id) == {i \in 1..Len(verifyTxs) : verifyTxs[i].requestId = id}

\* The listener started once, is still running, and the gateway has handed
\* over no entry twice.
RelayHealthy == RelayUp /\ relay.starts = 1 /\ relay.replays = 0

\* C1: when a bot's request() has gone through with the listener running and
\* no call failing, the request the bot submitted is Served and the reply the
\* bot reports is the storage value of its (account, key) at its blockId.
C1_ReplyIsOwnStorageValue ==
    \A b \in Bots :
        (bot[b].pc = "done" /\ RelayHealthy /\ own[b] \notin missed) =>
            /\ Req(own[b]).served
            /\ bot[b].msg.text =
                 FormatReply(StorageAt(bot[b].args[1], bot[b].args[2], bot[b].args[3]))

\* C2: the listener submits at most one verify transaction per requestId,
\* also when the same RequestLogged entry reaches its loop twice.
C2_OneVerifyPerRequest ==
    \A id \in RequestIds : Cardinality(VerifiesOf(id)) <= 1

\* C3: a waiter returns the event of the requestId it registered for: the id
\* it reports is that id and the reply it reports is that request's reply,
\* whatever the order in which the requests are served.
C3_WaiterGetsOwnReply ==
    \A b \in Bots :
        bot[b].pc = "done" =>
            /\ bot[b].msg.id = bot[b].rid
            /\ Req(bot[b].rid).served
            /\ bot[b].msg.text = FormatReply(Req(bot[b].rid).reply)

\* Two waiters, registered for distinct ids before either was served, have
\* both returned, and the later request was served first.
C3_Witness ==
    /\ Len(servedLog) = 2
    /\ servedLog[1].requestId > servedLog[2].requestId
    /\ \A b \in Bots : bot[b].pc = "done" /\ bot[b].fcur = 0
    /\ bot["bot1"].rid # bot["bot2"].rid

\* C4: the storageKey of every StateProof the listener builds has exactly 32
\* bytes: zero bytes, then the bytes of the requested key.
C4_StorageKeyPadded ==
    \A i \in 1..Len(verifyTxs) :
        LET sk == verifyTxs[i].stateProof.storageKey
            kb == IntToBytes(Req(verifyTxs[i].requestId).key)
            z  == 32 - Len(kb)
        IN  /\ Len(sk) = 32
            /\ \A j \in 1..32 : sk[j] = IF j <= z THEN 0 ELSE kb[j - z]

\* A proof for key 1 (31 zero bytes, then 0x01) and one for a two-byte key
\* have been built.
C4_Witness ==
    /\ \E i \in 1..Len(verifyTxs) :
          /\ Req(verifyTxs[i].requestId).key = 1
          /\ verifyTxs[i].stateProof.storageKey = [j \in 1..32 |-> IF j = 32 THEN 1 ELSE 0]
    /\ \E i \in 1..Len(verifyTxs) : Req(verifyTxs[i].requestId).key = 300

\* C5: the bot answers 'not found' only for a requestId that does not exist;
\* a failed call is not reported as not found.
C5_NotFoundOnlyForUnknown ==
    \A b \in Bots :
        bot[b].msg.kind = "notfound" => bot[b].msg.id \notin RequestIds

\* C6: a failure while one event is processed drops that event only: no step
\* of handle_event ends the loop.
C6_LoopSurvivesEventFailure ==
    [][relay.pc \in {"handle", "receipt"} => relay'.pc # "crashed"]_vars

\* C7: once the loop is over, or has polled everything logged so far, every
\* event logged while the filter existed has been handled exactly once.
C7_HandledExactlyOnce ==
    (relay.pc = "crashed" \/ (relay.pc = "poll" /\ relay.cursor = Total)) =>
        \A id \in RequestIds \ missed : TimesHandled(id) = 1

\* C8: a Served request is never Pending again, and no requestId is served
\* (RequestServed emitted) more than once.
C8_ServedOnce ==
    /\ [][\A id \in RequestIds : Req(id).served => requests'[id + 1].served]_vars
    /\ [](\A id \in RequestIds :
            Cardinality({i \in 1..Len(servedLog) : servedLog[i].requestId = id})
              = IF Req(id).served THEN 1 ELSE 0)

\* The listener has submitted a second verify for a request that was Served.
C8_Witness ==
    \E id \in RequestIds :
        /\ Req(id).served
        /\ Cardinality(VerifiesOf(id)) = 2

\* C9: when the request transaction or the wait for its receipt fails, the
\* handler is over: no RequestServed filter exists and the wait loop is not
\* entered.
C9_AbortBeforeWaiting ==
    \A b \in Bots :
        bot[b].err \in {"transact", "receipt"} =>
            bot[b].pc = "aborted" /\ bot[b].fcur = -1

\* One bot failed in transact(), the other in the wait for the receipt.
C9_Witness ==
    /\ bot["bot1"].err = "transact"
    /\ bot["bot2"].err = "receipt"

\* C10: an event logged while the listener had no filter is never handed to
\* handle_event, no verify is submitted for it, and its request stays Pending.
C10_MissedStaysPending ==
    \A id \in missed :
        /\ TimesHandled(id) = 0
        /\ VerifiesOf(id) = {}
        /\ ~Req(id).served

\* A request was logged between a crash and the restart, and the restarted
\* listener has since served a later request.
C10_Witness ==
    \E id \in missed, later \in RequestIds :
        /\ id < later
        /\ later \notin missed
        /\ Req(later).served
        /\ relay.starts = 2
        /\ relay.pc = "poll"

\* C11: the listener is single-flight at all times.  Never are two of its
\* verify transactions without receipt; the fetches and the verify of an
\* event start only when every verify handed over before has its receipt;
\* and it polls only when no event is in work: none current, none left of the
\* last poll.
C11_SingleFlight ==
    /\ relay.inflight <= 1
    /\ relay.pc = "handle" => relay.inflight = 0 /\ relay.cur \in RequestIds
    /\ relay.pc = "receipt" => relay.inflight = 1
    /\ relay.pc = "poll" => relay.cur = -1 /\ relay.queue = <<>>

\* The verify transactions without receipt that the running process handed
\* over itself.
InflightOfRun == relay.inflight - relay.lost

\* C11, within one run of the listener process: the running process never
\* waits for more than one verify of its own; it starts the fetches and the
\* verify of an event only when every verify it handed over itself has its
\* receipt; and it polls only when it has no event in work.  A verify whose
\* run ended in the wait for the receipt stays outside.
C11_SingleFlightPerRun ==
    /\ InflightOfRun \in {0, 1}
    /\ relay.pc = "handle" => InflightOfRun = 0 /\ relay.cur \in RequestIds
    /\ relay.pc = "receipt" => InflightOfRun = 1
    /\ relay.pc = "poll" =>
          InflightOfRun = 0 /\ relay.cur = -1 /\ relay.queue = <<>>
    /\ ~RelayUp => InflightOfRun = 0

\* One poll returned two events; the first one's verify has its receipt and
\* the second one's verify is waiting for its own.
C11_Witness ==
    /\ relay.starts = 1
    /\ relay.replays = 0
    /\ relay.pc = "receipt"
    /\ delivered = <<0, 1>>
    /\ handled = <<0, 1>>
    /\ Len(verifyTxs) = 2
    /\ relay.cur = 1

\* The requestIds of the verify transactions, in the order of submission.
VerifyIds == [i \in 1..Len(verifyTxs) |-> verifyTxs[i].requestId]

RECURSIVE IsSubseq(_, _)
\* s is t with some elements left out: every element of s is matched by one
\* of t, the matches in the order of s.
IsSubseq(s, t) ==
    IF s = <<>> THEN TRUE
    ELSE IF t = <<>> THEN FALSE
    ELSE IF Head(s) = Head(t) THEN IsSubseq(Tail(s), Tail(t))
    ELSE IsSubseq(s, Tail(t))

\* C12: the listener submits its verify transactions in the order in which
\* the gateway returned the RequestLogged events they are for, within one poll
\* and across polls: the submitted ids are the returned ids, some left out,
\* in the same order.
C12_VerifyInDeliveryOrder ==
    /\ IsSubseq(VerifyIds, delivered)
    /\ IsSubseq(handled, delivered)

\* Two events of one poll, and then one the gateway returned again in a later
\* poll, have had their verify submitted, in that order.
C12_Witness ==
    /\ Len(delivered) = 3
    /\ delivered[1] # delivered[2]
    /\ VerifyIds = delivered
    /\ relay.starts = 1
    /\ relay.pc = "poll"

\* C13: every verify transaction carries the requestId of one event the loop
\* was handed, and a StateProof whose state root, account, account proof,
\* storage root, storage value and storage proof are the ones of that event's
\* account and key at that event's blockId: nothing of another event or block.
C13_ProofOfOneEvent ==
    \A i \in 1..Len(verifyTxs) :
        LET id == verifyTxs[i].requestId
            sp == verifyTxs[i].stateProof
        IN  /\ id \in RequestIds
            /\ \E j \in 1..Len(handled) : handled[j] = id
            /\ LET r == Req(id)
                   p == GetProof(r.account, r.key, r.blockId)
               IN  /\ sp.stateRoot = GetBlock(r.blockId).stateRoot
                   /\ sp.account = r.account
                   /\ sp.accountProof = p.accountProof
                   /\ sp.storageHash = p.storageHash
                   /\ sp.storageValue = p.storageProof[1].value
                   /\ sp.storageProof = p.storageProof[1].proof
                   /\ p.storageProof[1].key = IntToBytes(r.key)

\* Verify transactions for two events that differ in account, key and block
\* have been submitted and accepted, the first one for the later block.
C13_Witness ==
    /\ Len(verifyTxs) = 2
    /\ Total = 2
    /\ VerifyIds = <<0, 1>>
    /\ Req(0).account # Req(1).account
    /\ Req(0).key # Req(1).key
    /\ Req(0).blockId > Req(1).blockId
    /\ \A i \in 1..2 : verifyTxs[i].result = "served"

\* The step in which bot b reads the counter and derives its requestId.
DerivesId(b) == bot[b].pc = "total" /\ bot'[b].pc = "filter"

\* C14: when no other request was confirmed between the bot's own request and
\* its read of the counter (the counter is the bot's own id plus one), the id
\* the bot derives, reports and waits on is the id the contract assigned to
\* its request.
C14_OwnIdWhenUndisturbed ==
    [][\A b \in Bots :
          (DerivesId(b) /\ GetTotal = own[b] + 1) =>
              /\ bot'[b].rid = own[b]
              /\ bot'[b].msg = Msg("created", own[b], FALSE, <<>>)]_vars

\* A bot whose request was the second one has derived its own id, 1.
C14_Witness ==
    \E b \in Bots :
        /\ bot[b].pc = "filter"
        /\ own[b] = 1
        /\ bot[b].rid = own[b]
        /\ bot[b].msg.kind = "created"

\* C15: the derivation is racy.  When another request was confirmed between
\* the bot's own request and its read of the counter, the id the bot derives
\* and reports is not its own: it is the id of the latest other request.
C15_OtherIdWhenInterleaved ==
    [][\A b \in Bots :
          (DerivesId(b) /\ GetTotal > own[b] + 1) =>
              /\ bot'[b].rid # own[b]
              /\ bot'[b].rid = Total - 1
              /\ bot'[b].msg = Msg("created", bot'[b].rid, FALSE, <<>>)]_vars

\* A bot has reported, and waits on, the requestId of the other bot's request.
C15_Witness ==
    \E b \in Bots, o \in Bots :
        /\ o # b
        /\ bot[b].pc = "listen"
        /\ bot[b].msg = Msg("created", bot[b].rid, FALSE, <<>>)
        /\ own[b] \in RequestIds
        /\ bot[b].rid # own[b]
        /\ bot[b].rid = own[o]

\* What the next poll of bot b's RequestServed filter returns.
Matching(b) == FilterEntries(bot[b].fcur, bot[b].rid)

\* C16: the wait is unbounded.  A waiting bot returns only in a step whose
\* poll has a matching entry, and then with the first entry; a poll without
\* a matching entry leaves it waiting, however many polls went before; the
\* wait has no exit of its own besides the return (the handler is left
\* otherwise only when the poll itself raises).
C16_WaitEndsOnlyOnMatch ==
    [][\A b \in Bots :
          bot[b].pc = "listen" =>
              /\ bot'[b].pc \in {"listen", "done", "aborted"}
              /\ bot'[b].pc = "done" =>
                    /\ Matching(b) # <<>>
                    /\ bot'[b].msg = Msg("served", Matching(b)[1].requestId, TRUE,
                                         FormatReply(Matching(b)[1].reply))
              /\ Matching(b) = <<>> => bot'[b].pc # "done"
              /\ (bot'[b] # bot[b] /\ Matching(b) # <<>>) =>
                    bot'[b].pc \in {"done", "aborted"}
              /\ bot'[b].pc = "aborted" => bot'[b].err = "listen"]_vars

\* One bot's wait has returned; the other waits on a request that was logged
\* while no listener ran, and the listener is down for good: no matching event
\* will come.
C16_Witness ==
    \E b \in Bots, o \in Bots :
        /\ bot[o].pc = "done"
        /\ bot[b].pc = "listen"
        /\ bot[b].rid \in missed
        /\ bot[b].fcur = Len(servedLog)
        /\ Len(servedLog) > 0
        /\ ~RelayUp
        /\ relay.starts = MaxStarts

\* C17: callers are not held up by a waiting caller.  While a bot's request
\* handler waits for its served event, the bot can take another caller's
\* status query, and another caller's request as long as the contract takes
\* requests.
C17_CallersNotBlocked ==
    bot[QueryBot].pc = "listen" =>
        /\ ENABLED QueryStep(QueryBot)
        /\ Total < MaxRequests =>
              ENABLED (\E a \in Args : BotTransact(QueryBot, a, TRUE))

\* The RequestServed event of the id bot b waits on was emitted before b's
\* filter existed, or before a poll that b's filter has already answered.
ServedBehind(b) ==
    \E i \in 1..bot[b].fcur : servedLog[i].requestId = bot[b].rid

\* C18: the bot's RequestServed filter exists only once the request
\* transaction is confirmed, the counter is read and 'Request created' is
\* sent, and it starts at the end of the log; an event for the bot's id that
\* was emitted before is never returned: the bot stays in its wait (or its
\* handler fails) although the request is Served.
C18_ServedBeforeFilterIsLost ==
    /\ [](\A b \in Bots :
            /\ bot[b].pc \in {"idle", "aborted", "receipt", "total", "filter"} =>
                  bot[b].fcur = -1
            /\ bot[b].fcur # -1 =>
                  bot[b].rid # -1 /\ bot[b].msg.kind \in {"created", "served"}
            /\ (bot[b].pc = "listen" /\ ServedBehind(b)) => Req(bot[b].rid).served)
    /\ [][\A b \in Bots :
            /\ (bot[b].pc = "filter" /\ bot'[b].pc = "listen") =>
                  bot'[b].fcur = Len(servedLog)
            /\ (bot[b].pc = "listen" /\ ServedBehind(b)) =>
                  /\ bot'[b].pc \in {"listen", "aborted"}
                  /\ bot'[b].pc = "listen" => ServedBehind(b)']_vars

\* The listener's verify for a bot's own request was confirmed before the bot
\* created its filter: the request is Served, the bot waits.
C18_Witness ==
    \E b \in Bots :
        /\ bot[b].pc = "listen"
        /\ bot[b].rid = own[b]
        /\ Req(bot[b].rid).served
        /\ ServedBehind(b)
        /\ bot[b].msg.kind = "created"

\* The kinds of message a status command answers with.
QueryKinds == {"total", "pending", "servedCount", "status", "notfound"}

\* C19: the status queries are read-only and uncached.  A step in which a bot
\* answers a status command changes nothing of the contract and submits no
\* transaction, and the answer shows what the contract holds at that moment:
\* the total, the number of Pending, the number of Served, or the named
\* request's state and reply.
C19_QueriesReadOnly ==
    [][\A b \in Bots :
          (bot'[b] # bot[b] /\ bot'[b].msg.kind \in QueryKinds) =>
              LET m == bot'[b].msg IN
              /\ UNCHANGED <<requests, servedLog, verifyTxs, relay, delivered, handled>>
              /\ m.kind = "total" => m.id = Len(requests)
              /\ m.kind = "pending" =>
                    m.id = Cardinality({i \in RequestIds : ~Req(i).served})
              /\ m.kind = "servedCount" =>
                    m.id = Cardinality({i \in RequestIds : Req(i).served})
              /\ m.kind = "status" =>
                    /\ m.id \in RequestIds
                    /\ m.served = Req(m.id).served
                    /\ m.text = FormatReply(Req(m.id).reply)]_vars

\* The bot has answered a status command about a contract that holds a Served
\* request: no request Pending, or the Served request's state and reply.
C19_Witness ==
    /\ GetServed > 0
    /\ \/ bot[QueryBot].msg = Msg("pending", 0, FALSE, <<>>)
       \/ /\ bot[QueryBot].msg.kind = "status"
          /\ bot[QueryBot].msg.served
          /\ bot[QueryBot].msg.text # <<"0", "x">>

====
